---- MODULE Spec2Model ----
(***************************************************************************)
(* Model of the binary_search_tree / avl_tree stack of dsl_graph           *)
(* (src/include/binary_tree.h, binary_search_tree.h, avl_tree.h).          *)
(*                                                                         *)
(* The heap is a set of node addresses 1..nalloc; a node's fields are the  *)
(* functions m_value, m_left, m_right.  nullptr is address 0.  `delete`    *)
(* does not unlink anything: it adds the node to released, and            *)
(* double_free records that some address was deleted twice.  Whether the   *)
(* allocator keeps a freed node's key or clobbers it (Garbage) is a        *)
(* property of the build, drawn in Init (clobber); child links of a freed  *)
(* node are kept.  Dereferencing nullptr ends the run (pc = "crashed").    *)
(*                                                                         *)
(* Where the source does not compile, the statement is read as follows:    *)
(*   binary_search_tree.h:189,201  `root = ...` assigns the by-value       *)
(*       parameter `root`: no effect on the tree;                          *)
(*   binary_search_tree.h:194  `root->m_value(iop.m_value)` is the         *)
(*       assignment root->m_value = iop.m_value;                           *)
(*   binary_search_tree.h:195  `node->m_left` is root->m_left;             *)
(*   binary_search_tree.h:210  `(!find(value)) false : remove(...)` is     *)
(*       the conditional (!find(value)) ? false : remove(...);             *)
(*   avl_tree.h:176  `ld > rd` is depth(curr->m_left) > depth(curr->m_right);*)
(*   avl_tree.h:198,208  the optional returned by pathTo is unwrapped.     *)
(***************************************************************************)
EXTENDS Integers, Sequences, FiniteSets, TLC

\* ---------------------------------------------------------------- bounds
MaxKey == 4
MaxNodes == 4
\* SpecRotate (pushes into an avl_tree only) has one node and one key more:
\* a walk that rotates with parent == nullptr and returns needs 5 nodes.
MaxNodesRotate == 5

Keys == 1..MaxKey
KeysRotate == 1..MaxNodesRotate
HeapSize == IF MaxNodes > MaxNodesRotate THEN MaxNodes ELSE MaxNodesRotate
Addr == 1..HeapSize
\* what a clobbered key reads as: a value that is no key of the model
Garbage == (IF MaxKey > MaxNodesRotate THEN MaxKey ELSE MaxNodesRotate) + 1

nullptr == 0

VARIABLES kind, clobber, m_root, m_size, m_value, m_left, m_right,
          nalloc, released, double_free, pc, s, hist

vars == <<kind, clobber, m_root, m_size, m_value, m_left, m_right,
          nalloc, released, double_free, pc, s, hist>>

Max(a, b) == IF a > b THEN a ELSE b
Abs(a) == IF a < 0 THEN 0 - a ELSE a

\* ------------------------------------------------------- binary_tree.h
\* depth(root): 0 for nullptr, else max(depth(left) + 1, depth(right) + 1).
\* fuel bounds the recursion depth (a chain has at most HeapSize nodes).
RECURSIVE depthF(_, _, _, _)
depthF(L, R, root, fuel) ==
    IF root = nullptr \/ fuel = 0 THEN 0
    ELSE Max(depthF(L, R, L[root], fuel - 1) + 1,
             depthF(L, R, R[root], fuel - 1) + 1)

depth(L, R, root) == depthF(L, R, root, HeapSize)

\* The nodes ~binary_tree deletes: every node the level-order walk from
\* root dequeues (children are read before the node is deleted).
RECURSIVE ReachF(_, _, _, _)
ReachF(L, R, root, fuel) ==
    IF root = nullptr \/ fuel = 0 THEN {}
    ELSE {root} \cup ReachF(L, R, L[root], fuel - 1)
                \cup ReachF(L, R, R[root], fuel - 1)

Reach(L, R, root) == ReachF(L, R, root, HeapSize)

\* How many times the level-order walk dequeues node n (once per path).
RECURSIVE VisitsF(_, _, _, _, _)
VisitsF(L, R, root, n, fuel) ==
    IF root = nullptr \/ fuel = 0 THEN 0
    ELSE (IF root = n THEN 1 ELSE 0)
         + VisitsF(L, R, L[root], n, fuel - 1)
         + VisitsF(L, R, R[root], n, fuel - 1)

Visits(L, R, root, n) == VisitsF(L, R, root, n, HeapSize)

\* vectorize(root, vector): the nodes of the subtree in in-order (left
\* subtree, node, right subtree), as toVector collects them.
RECURSIVE vectorizeF(_, _, _, _)
vectorizeF(L, R, root, fuel) ==
    IF root = nullptr \/ fuel = 0 THEN <<>>
    ELSE vectorizeF(L, R, L[root], fuel - 1) \o <<root>>
         \o vectorizeF(L, R, R[root], fuel - 1)

vectorize(L, R, root) == vectorizeF(L, R, root, HeapSize)

\* bitree_same: the structure and keys of a subtree, as a value that two
\* subtrees share exactly when bitree_same holds of them.
RECURSIVE ShapeF(_, _, _, _, _)
ShapeF(V, L, R, node, fuel) ==
    IF node = nullptr \/ fuel = 0 THEN <<>>
    ELSE <<ShapeF(V, L, R, L[node], fuel - 1), V[node],
           ShapeF(V, L, R, R[node], fuel - 1)>>

Shape(V, L, R, node) == ShapeF(V, L, R, node, HeapSize)

\* ------------------------------------------------ binary_search_tree.h
\* maxKey(root): follow m_right to the end.
RECURSIVE maxKeyF(_, _, _)
maxKeyF(R, curr, fuel) ==
    IF R[curr] = nullptr \/ fuel = 0 THEN curr
    ELSE maxKeyF(R, R[curr], fuel - 1)

maxKey(R, root) == maxKeyF(R, root, HeapSize)

\* minKey(root): follow m_left to the end.
RECURSIVE minKeyF(_, _, _)
minKeyF(L, curr, fuel) ==
    IF L[curr] = nullptr \/ fuel = 0 THEN curr
    ELSE minKeyF(L, L[curr], fuel - 1)

minKey(L, root) == minKeyF(L, root, HeapSize)

\* find(value): the node holding value on the comparison descent, or
\* nullptr for std::nullopt.
RECURSIVE findF(_, _, _, _, _, _)
findF(V, L, R, curr, value, fuel) ==
    IF curr = nullptr \/ fuel = 0 THEN nullptr
    ELSE IF V[curr] = value THEN curr
    ELSE findF(V, L, R, IF value < V[curr] THEN L[curr] ELSE R[curr],
               value, fuel - 1)

\* find that compares with the key of the root only and never descends.
find_root_only(V, L, R, root, value) == findF(V, L, R, root, value, 1)

find(V, L, R, root, value) == findF(V, L, R, root, value, HeapSize)

\* pathTo(value): the stack of nodes visited before the node holding
\* value (bottom = root, top = last element); found = FALSE is nullopt.
RECURSIVE pathToF(_, _, _, _, _, _, _)
pathToF(V, L, R, curr, value, stack, fuel) ==
    IF curr = nullptr \/ fuel = 0 THEN [found |-> FALSE, s |-> <<>>]
    ELSE IF V[curr] = value THEN [found |-> TRUE, s |-> stack]
    ELSE pathToF(V, L, R, IF value < V[curr] THEN L[curr] ELSE R[curr],
                 value, Append(stack, curr), fuel - 1)

pathTo(V, L, R, root, value) == pathToF(V, L, R, root, value, <<>>, HeapSize)

\* parentOf(value): nullptr (std::nullopt) for an empty tree and for the
\* key of the root; else the node visited just before the node holding
\* value on the comparison descent, nullptr when the descent ends
\* without meeting value.
RECURSIVE parentOfF(_, _, _, _, _, _, _)
parentOfF(V, L, R, curr, prev, value, fuel) ==
    IF curr = nullptr \/ fuel = 0 THEN nullptr
    ELSE IF V[curr] = value THEN prev
    ELSE parentOfF(V, L, R, IF value < V[curr] THEN L[curr] ELSE R[curr],
                   curr, value, fuel - 1)

parentOf(V, L, R, root, value) ==
    IF root = nullptr THEN nullptr
    ELSE IF V[root] = value THEN nullptr
    ELSE parentOfF(V, L, R, root, nullptr, value, HeapSize)

\* The descent of push below a non-null root: dup when an equal key is
\* met, else prev, the node under which the new node is hung.
RECURSIVE pushDescentF(_, _, _, _, _, _, _)
pushDescentF(V, L, R, curr, prev, value, fuel) ==
    IF curr = nullptr \/ fuel = 0 THEN [dup |-> FALSE, prev |-> prev]
    ELSE IF V[curr] = value THEN [dup |-> TRUE, prev |-> prev]
    ELSE pushDescentF(V, L, R, IF value < V[curr] THEN L[curr] ELSE R[curr],
                      curr, value, fuel - 1)

pushDescent(V, L, R, root, value) ==
    pushDescentF(V, L, R, root, nullptr, value, HeapSize)

\* remove(root, value).  root is a pointer passed by value, so neither
\* `root = nullptr` nor `root = child` changes any slot of the tree.
\* Result: ret, the key function after the call, and del, the node
\* `delete` was applied to (nullptr when none).
RECURSIVE removeF(_, _, _, _, _, _)
removeF(V, L, R, root, value, fuel) ==
    IF root = nullptr \/ fuel = 0 THEN [ret |-> FALSE, V |-> V, del |-> nullptr]
    ELSE IF value < V[root] THEN removeF(V, L, R, L[root], value, fuel - 1)
    ELSE IF value > V[root] THEN removeF(V, L, R, R[root], value, fuel - 1)
    ELSE IF L[root] = nullptr /\ R[root] = nullptr
         THEN [ret |-> TRUE, V |-> V, del |-> root]
    ELSE IF L[root] # nullptr /\ R[root] # nullptr
         THEN LET iop == maxKey(R, L[root])
                  V2 == [V EXCEPT ![root] = V[iop]]
              IN  removeF(V2, L, R, L[root], V[iop], fuel - 1)
    ELSE [ret |-> TRUE, V |-> V, del |-> nullptr]

remove(V, L, R, root, value) == removeF(V, L, R, root, value, HeapSize + 1)

\* ----------------------------------------------------------- avl_tree.h
\* depth(right) - depth(left): the balance with the wrong sign
balanceOf_mirrored(L, R, root) ==
    IF root = nullptr THEN 0 ELSE depth(L, R, R[root]) - depth(L, R, L[root])

\* balanceOf(root): 0 for nullptr, else depth(left) - depth(right).
balanceOf(L, R, root) ==
    IF root = nullptr THEN 0 ELSE depth(L, R, L[root]) - depth(L, R, R[root])

\* The links of the heap while a rotation runs; ok = FALSE once a null
\* pointer has been dereferenced.
Links(L, R) == [ok |-> TRUE, L |-> L, R |-> R]
Segv(h) == [ok |-> FALSE, L |-> h.L, R |-> h.R]

\* rotate_left(parent, isLeft).  With parent == nullptr the rotation is
\* done on this->m_root and the new subtree root is stored in the local
\* `root` only: m_root is not assigned.
rotate_left(h, root, parent, isLeft) ==
    IF ~h.ok THEN h
    ELSE IF parent = nullptr
    THEN IF root = nullptr THEN Segv(h)
         ELSE LET temp == h.R[root]
              IN  IF temp = nullptr THEN Segv(h)
                  ELSE LET R1 == [h.R EXCEPT ![root] = h.L[temp]]
                           L1 == [h.L EXCEPT ![temp] = root]
                       IN  Links(L1, R1)
    ELSE LET unb == IF isLeft THEN h.L[parent] ELSE h.R[parent]
         IN  IF unb = nullptr THEN Segv(h)
             ELSE LET temp == h.R[unb]
                  IN  IF temp = nullptr THEN Segv(h)
                      ELSE LET R1 == [h.R EXCEPT ![unb] = h.L[temp]]
                               L1 == [h.L EXCEPT ![temp] = unb]
                           IN  IF isLeft
                               THEN Links([L1 EXCEPT ![parent] = temp], R1)
                               ELSE Links(L1, [R1 EXCEPT ![parent] = temp])

\* rotate_right(parent, isLeft): the mirror image, same root case.
rotate_right(h, root, parent, isLeft) ==
    IF ~h.ok THEN h
    ELSE IF parent = nullptr
    THEN IF root = nullptr THEN Segv(h)
         ELSE LET temp == h.L[root]
              IN  IF temp = nullptr THEN Segv(h)
                  ELSE LET L1 == [h.L EXCEPT ![root] = h.R[temp]]
                           R1 == [h.R EXCEPT ![temp] = root]
                       IN  Links(L1, R1)
    ELSE LET unb == IF isLeft THEN h.L[parent] ELSE h.R[parent]
         IN  IF unb = nullptr THEN Segv(h)
             ELSE LET temp == h.L[unb]
                  IN  IF temp = nullptr THEN Segv(h)
                      ELSE LET L1 == [h.L EXCEPT ![unb] = h.R[temp]]
                               R1 == [h.R EXCEPT ![temp] = unb]
                           IN  IF isLeft
                               THEN Links([L1 EXCEPT ![parent] = temp], R1)
                               ELSE Links(L1, [R1 EXCEPT ![parent] = temp])

\* rotate_left_right(parent, isLeft)
rotate_left_right(h, root, parent, isLeft) ==
    IF parent = nullptr
    THEN rotate_right(rotate_left(h, root, root, TRUE), root, nullptr, FALSE)
    ELSE LET child == IF isLeft THEN h.L[parent] ELSE h.R[parent]
         IN  rotate_right(rotate_left(h, root, child, TRUE), root, parent, isLeft)

\* rotate_right_left(parent, isLeft)
rotate_right_left(h, root, parent, isLeft) ==
    IF parent = nullptr
    THEN rotate_left(rotate_right(h, root, root, FALSE), root, nullptr, FALSE)
    ELSE LET child == IF isLeft THEN h.L[parent] ELSE h.R[parent]
         IN  rotate_left(rotate_right(h, root, child, isLeft), root, parent, isLeft)

\* One iteration of the loop of update_balance, after curr, parent and
\* isLeft are set (avl_tree.h:174-186).
rebalance(L, R, root, curr, parent, isLeft) ==
    LET h == Links(L, R)
    IN  IF Abs(balanceOf(L, R, curr)) > 1
        THEN IF depth(L, R, L[curr]) > depth(L, R, R[curr])
             THEN IF balanceOf(L, R, L[curr]) > 0
                  THEN rotate_right(h, root, parent, isLeft)
                  ELSE rotate_left_right(h, root, parent, isLeft)
             ELSE IF balanceOf(L, R, R[curr]) > 0
                  THEN rotate_right_left(h, root, parent, isLeft)
                  ELSE rotate_left(h, root, parent, isLeft)
        ELSE h

\* ------------------------------------------------------------- history
\* The keys of the tree: those of the nodes reachable from m_root that
\* have not been released, in in-order.
LiveKeys ==
    LET v == SelectSeq(vectorize(m_left, m_right, m_root),
                       LAMBDA n : n \notin released)
    IN  [i \in 1..Len(v) |-> m_value[v[i]]]

\* find(k) from m_root.
Found(k) == find(m_value, m_left, m_right, m_root, k)

\* hist[1] is the current (or last) call with the tree as it was when the
\* call began: its shape with every node still linked, its keys, its size.  hist[2] is kept only while hist[1] is the pop
\* of the key that the call before it pushed: it is that push.
Snap == [shape |-> Shape(m_value, m_left, m_right, m_root),
         keys |-> LiveKeys,
         size |-> m_size]

Call(op, value, ret) ==
    <<[op |-> op, value |-> value, ret |-> ret, pre |-> Snap]>>
    \o (IF /\ hist # <<>>
           /\ op = "pop"
           /\ hist[1].op = "push"
           /\ hist[1].value = value
           /\ hist[1].ret = "true"
        THEN <<hist[1]>>
        ELSE <<>>)

Return(ret) == [hist EXCEPT ![1].ret = ret]

\* A call that only reads the tree.  ret is how it ended: "value" (res is
\* what it returned) or "throw" (an exception left the call).
Query(op, value, ret, res) ==
    <<[op |-> op, value |-> value, ret |-> ret, res |-> res]>>

\* ------------------------------------------------------------- actions
Init ==
    /\ kind \in {"bst", "avl"}
    /\ clobber \in BOOLEAN
    /\ m_root = nullptr
    /\ m_size = 0
    /\ m_value = [n \in Addr |-> 0]
    /\ m_left = [n \in Addr |-> nullptr]
    /\ m_right = [n \in Addr |-> nullptr]
    /\ nalloc = 0
    /\ released = {}
    /\ double_free = FALSE
    /\ pc = "idle"
    /\ s = <<>>
    /\ hist = <<>>

\* binary_search_tree::push(value): the heap after the call, and ret.
\* `new` returns the next unused address.
bst_push(value) ==
    LET a == nalloc + 1
        V1 == [m_value EXCEPT ![a] = value]
        same == [ret |-> FALSE, root |-> m_root, V |-> m_value, L |-> m_left,
                 R |-> m_right, size |-> m_size, nalloc |-> nalloc]
    IN  IF m_root = nullptr
        THEN [ret |-> TRUE, root |-> a, V |-> V1, L |-> m_left, R |-> m_right,
              size |-> m_size + 1, nalloc |-> a]
        ELSE LET d == pushDescent(m_value, m_left, m_right, m_root, value)
             IN  IF d.dup THEN same
                 ELSE IF value < m_value[d.prev]
                 THEN [ret |-> TRUE, root |-> m_root, V |-> V1,
                       L |-> [m_left EXCEPT ![d.prev] = a], R |-> m_right,
                       size |-> m_size + 1, nalloc |-> a]
                 ELSE [ret |-> TRUE, root |-> m_root, V |-> V1,
                       L |-> m_left, R |-> [m_right EXCEPT ![d.prev] = a],
                       size |-> m_size + 1, nalloc |-> a]

\* binary_search_tree::pop(value): find, then remove from m_root.
\* `delete root` (binary_search_tree.h:188) releases the node and unlinks
\* nothing; the freed key reads as Garbage afterwards when the allocator
\* clobbers freed memory.  m_size is not touched.  again: the node was
\* released before (a second delete of the same address).
bst_pop(value) ==
    IF find(m_value, m_left, m_right, m_root, value) = nullptr
    THEN [ret |-> FALSE, V |-> m_value, del |-> nullptr,
          released |-> released, again |-> FALSE]
    ELSE LET r == remove(m_value, m_left, m_right, m_root, value)
         IN  IF r.del = nullptr
             THEN [ret |-> r.ret, V |-> r.V, del |-> nullptr,
                   released |-> released, again |-> FALSE]
             ELSE [ret |-> r.ret,
                   V |-> IF clobber THEN [r.V EXCEPT ![r.del] = Garbage] ELSE r.V,
                   del |-> r.del,
                   released |-> released \cup {r.del},
                   again |-> r.del \in released]

BstPush(value) ==
    /\ pc = "idle"
    /\ kind = "bst"
    /\ LET r == bst_push(value)
       IN  /\ r.nalloc <= MaxNodes
           /\ m_root' = r.root
           /\ m_value' = r.V
           /\ m_left' = r.L
           /\ m_right' = r.R
           /\ m_size' = r.size
           /\ nalloc' = r.nalloc
           /\ hist' = Call("push", value, IF r.ret THEN "true" ELSE "false")
    /\ UNCHANGED <<kind, clobber, released, double_free, pc, s>>

\* avl_tree::push(value): binary_search_tree::push, then the walk over
\* pathTo(value).  The walk itself is WalkStep; an empty path ends the
\* call at once.
AvlPushWithin(limit, value) ==
    /\ pc = "idle"
    /\ kind = "avl"
    /\ LET r == bst_push(value)
           p == pathTo(r.V, r.L, r.R, r.root, value)
       IN  /\ r.nalloc <= limit
           /\ m_root' = r.root
           /\ m_value' = r.V
           /\ m_left' = r.L
           /\ m_right' = r.R
           /\ m_size' = r.size
           /\ nalloc' = r.nalloc
           /\ IF ~r.ret
              THEN /\ hist' = Call("push", value, "false")
                   /\ UNCHANGED <<pc, s>>
              ELSE IF p.s = <<>>
              THEN /\ hist' = Call("push", value, "true")
                   /\ UNCHANGED <<pc, s>>
              ELSE /\ hist' = Call("push", value, "pending")
                   /\ pc' = "walk"
                   /\ s' = p.s
    /\ UNCHANGED <<kind, clobber, released, double_free>>

AvlPush(value) == AvlPushWithin(MaxNodes, value)

\* A second delete of the same address either aborts the run (the
\* allocator detects it) or goes through.
BstPop(value) ==
    /\ pc = "idle"
    /\ kind = "bst"
    /\ LET r == bst_pop(value)
       IN  \E abort \in BOOLEAN :
              /\ abort => r.again
              /\ IF abort
                 THEN /\ pc' = "crashed"
                      /\ hist' = Call("pop", value, "pending")
                      /\ UNCHANGED <<m_value, released, double_free>>
                 ELSE /\ m_value' = r.V
                      /\ released' = r.released
                      /\ double_free' = (double_free \/ r.again)
                      /\ hist' = Call("pop", value, IF r.ret THEN "true" ELSE "false")
                      /\ UNCHANGED pc
    /\ UNCHANGED <<kind, clobber, m_root, m_size, m_left, m_right, nalloc, s>>

\* avl_tree::pop(value): pathTo(value) first, then
\* binary_search_tree::pop, then the walk over the captured path (WalkStep;
\* an empty path ends the call at once).
AvlPop(value) ==
    /\ pc = "idle"
    /\ kind = "avl"
    /\ LET p == pathTo(m_value, m_left, m_right, m_root, value)
           r == bst_pop(value)
       IN  \E abort \in BOOLEAN :
              /\ abort => r.again
              /\ IF abort
                 THEN /\ pc' = "crashed"
                      /\ hist' = Call("pop", value, "pending")
                      /\ UNCHANGED <<m_value, released, double_free, s>>
                 ELSE /\ m_value' = r.V
                      /\ released' = r.released
                      /\ double_free' = (double_free \/ r.again)
                      /\ IF ~r.ret
                         THEN /\ hist' = Call("pop", value, "false")
                              /\ UNCHANGED <<pc, s>>
                         ELSE IF p.s = <<>>
                         THEN /\ hist' = Call("pop", value, "true")
                              /\ UNCHANGED <<pc, s>>
                         ELSE /\ hist' = Call("pop", value, "pending")
                              /\ pc' = "walk"
                              /\ s' = p.s
    /\ UNCHANGED <<kind, clobber, m_root, m_size, m_left, m_right, nalloc>>

\* One iteration of the while loop of update_balance.  After s.pop() the
\* test `if (s.empty())` is true exactly when nothing is left, and
\* s.top() then reads an empty stack: top is what that read yields, the
\* address of any node or a pointer that cannot be dereferenced (0).  In
\* every other iteration parent stays nullptr and isLeft false.
\* the stack after `curr = s.top(); s.pop();`
WalkRest == SubSeq(s, 1, Len(s) - 1)
\* the iteration executes `parent = s.top()`: it does when s.empty()
ReadsTop == WalkRest = <<>>
\* what `s.top()` can yield in this iteration (0 when it is not executed)
TopReads == IF ReadsTop THEN 0..nalloc ELSE {0}
\* parent and isLeft of the iteration, top being what s.top() yielded
WalkParent(top) == IF ReadsTop THEN top ELSE nullptr
WalkIsLeft(top) ==
    IF ReadsTop THEN m_value[s[Len(s)]] < m_value[top] ELSE FALSE
\* the links after the rotation of the iteration, if any
WalkLinks(top) ==
    rebalance(m_left, m_right, m_root, s[Len(s)], WalkParent(top), WalkIsLeft(top))

WalkStep ==
    /\ pc = "walk"
    /\ \E top \in TopReads :
          IF ReadsTop /\ top = 0
          THEN /\ pc' = "crashed"
               /\ UNCHANGED <<m_left, m_right, s, hist>>
          ELSE LET h == WalkLinks(top)
               IN  IF ~h.ok
                   THEN /\ pc' = "crashed"
                        /\ UNCHANGED <<m_left, m_right, s, hist>>
                   ELSE /\ m_left' = h.L
                        /\ m_right' = h.R
                        /\ s' = WalkRest
                        /\ pc' = IF WalkRest = <<>> THEN "idle" ELSE "walk"
                        /\ hist' = IF WalkRest = <<>> THEN Return("true") ELSE hist
    /\ UNCHANGED <<kind, clobber, m_root, m_size, m_value, nalloc, released, double_free>>

\* ~binary_tree(): the level-order walk from m_root deletes every node it
\* dequeues.
Teardown ==
    /\ pc = "idle"
    /\ pc' = "destroyed"
    /\ released' = released \cup Reach(m_left, m_right, m_root)
    /\ double_free' = (double_free \/ \E n \in Addr :
                          Visits(m_left, m_right, m_root, n)
                          + (IF n \in released THEN 1 ELSE 0) > 1)
    /\ hist' = Call("teardown", 0, "true")
    /\ UNCHANGED <<kind, clobber, m_root, m_size, m_value, m_left, m_right, nalloc, s>>

\* binary_tree::max(): throws std::out_of_range on an empty tree, else
\* max(*m_root), the key of maxKey(*m_root).
TreeMax ==
    /\ pc = "idle"
    /\ hist' = IF m_root = nullptr
               THEN Query("max", 0, "throw", 0)
               ELSE Query("max", 0, "value", m_value[maxKey(m_right, m_root)])
    /\ UNCHANGED <<kind, clobber, m_root, m_size, m_value, m_left, m_right,
                   nalloc, released, double_free, pc, s>>

\* binary_tree::min(): the same with minKey.
TreeMin ==
    /\ pc = "idle"
    /\ hist' = IF m_root = nullptr
               THEN Query("min", 0, "throw", 0)
               ELSE Query("min", 0, "value", m_value[minKey(m_left, m_root)])
    /\ UNCHANGED <<kind, clobber, m_root, m_size, m_value, m_left, m_right,
                   nalloc, released, double_free, pc, s>>

\* binary_search_tree::find(value): res is the node returned, nullptr for
\* std::nullopt.
Find(value) ==
    /\ pc = "idle"
    /\ hist' = Query("find", value, "value",
                     find(m_value, m_left, m_right, m_root, value))
    /\ UNCHANGED <<kind, clobber, m_root, m_size, m_value, m_left, m_right,
                   nalloc, released, double_free, pc, s>>

\* binary_search_tree::pathTo(value): res.found = FALSE is std::nullopt,
\* else res.s is the stack returned (bottom first).
PathTo(value) ==
    /\ pc = "idle"
    /\ hist' = Query("pathTo", value, "value",
                     pathTo(m_value, m_left, m_right, m_root, value))
    /\ UNCHANGED <<kind, clobber, m_root, m_size, m_value, m_left, m_right,
                   nalloc, released, double_free, pc, s>>

\* binary_search_tree::parentOf(value): res is the node returned, nullptr
\* for std::nullopt.
ParentOf(value) ==
    /\ pc = "idle"
    /\ hist' = Query("parentOf", value, "value",
                     parentOf(m_value, m_left, m_right, m_root, value))
    /\ UNCHANGED <<kind, clobber, m_root, m_size, m_value, m_left, m_right,
                   nalloc, released, double_free, pc, s>>

Next ==
    \/ \E value \in Keys : BstPush(value)
    \/ \E value \in Keys : AvlPush(value)
    \/ \E value \in Keys : BstPop(value)
    \/ \E value \in Keys : AvlPop(value)
    \/ WalkStep
    \/ Teardown
    \/ TreeMax
    \/ TreeMin
    \/ \E value \in Keys : Find(value)
    \/ \E value \in Keys : PathTo(value)
    \/ \E value \in Keys : ParentOf(value)

Spec == Init /\ [][Next]_vars

\* An avl_tree that is pushed into only, with MaxNodesRotate nodes and keys.
InitRotate == Init /\ kind = "avl" /\ ~clobber

AvlPushRotate(value) == AvlPushWithin(MaxNodesRotate, value)

NextRotate ==
    \/ \E value \in KeysRotate : AvlPushRotate(value)
    \/ WalkStep

SpecRotate == InitRotate /\ [][NextRotate]_vars

\* ---------------------------------------------------------- sanity
TypeOK ==
    /\ kind \in {"bst", "avl"}
    /\ m_root \in 0..MaxNodes
    /\ m_size \in 0..MaxNodes
    /\ m_value \in [Addr -> 0..Garbage]
    /\ m_left \in [Addr -> 0..MaxNodes]
    /\ m_right \in [Addr -> 0..MaxNodes]
    /\ nalloc \in 0..MaxNodes
    /\ released \subseteq 1..MaxNodes
    /\ pc \in {"idle", "walk", "crashed", "destroyed"}
    /\ (pc = "walk") => (s # <<>>)

\* No chain of links is longer than the number of nodes: the heap has no
\* cycle, so the recursion bound of the operators above is never what
\* ends a recursion.
Acyclic ==
    \A n \in Addr : depthF(m_left, m_right, n, HeapSize + 1) <= HeapSize

\* ------------------------------------------------------------- claims
Range(q) == {q[i] : i \in 1..Len(q)}
StrictlyIncreasing(q) == \A i \in 1..(Len(q) - 1) : q[i] < q[i + 1]
Without(q, k) == SelectSeq(q, LAMBDA x : x # k)
Inserted(q, k) ==
    LET c == Cardinality({i \in 1..Len(q) : q[i] < k})
    IN  SubSeq(q, 1, c) \o <<k>> \o SubSeq(q, c + 1, Len(q))

Live == (1..nalloc) \ released
Tree == Reach(m_left, m_right, m_root)
Shape_now == Shape(m_value, m_left, m_right, m_root)
\* a call of push or pop has returned and is the last thing that happened
Returned(op) == pc = "idle" /\ hist # <<>> /\ hist[1].op = op
Balanced == \A n \in Tree : Abs(balanceOf(m_left, m_right, n)) <= 1

\* C1: after any sequence of avl_tree push and pop calls, every node
\* reachable from the root has |depth(left) - depth(right)| <= 1.
C1_AvlInvariant == (kind = "avl" /\ pc = "idle") => Balanced

\* C2: after any sequence of push and pop calls on either tree the keys of
\* the tree, in in-order from the root, are strictly increasing.
C2_BstOrder == pc = "idle" => StrictlyIncreasing(LiveKeys)

\* C3: after every call size() is the number of (live) nodes reachable from
\* the root; a successful push adds one, a successful pop takes one away, a
\* failed call leaves it as it was.
C3_SizeConsistent ==
    (pc = "idle" /\ hist # <<>> /\ hist[1].op \in {"push", "pop"}) =>
        /\ m_size = Cardinality(Tree \ released)
        /\ m_size = hist[1].pre.size
                    + (IF hist[1].ret = "false" THEN 0
                       ELSE IF hist[1].op = "push" THEN 1 ELSE 0 - 1)

\* C4: pop(k) returns true exactly when k is a key of the tree, and after a
\* successful pop(k) the in-order key sequence is the previous one without
\* k, and find(k) is absent.
C4_PopRemovesKey ==
    Returned("pop") =>
        LET k == hist[1].value
        IN  /\ (hist[1].ret = "true") <=> (k \in Range(hist[1].pre.keys))
            /\ hist[1].ret = "true" =>
                  /\ LiveKeys = Without(hist[1].pre.keys, k)
                  /\ Found(k) = nullptr

\* C5: push(k) of a key that is not a key of the tree runs to its end and
\* returns true; afterwards the in-order key sequence is the previous one
\* with k at its sorted position, every key that was in the tree is still
\* found, and find(k) is a node that holds k.
C5_PushInsertsKey ==
    (hist # <<>> /\ hist[1].op = "push"
                 /\ hist[1].value \notin Range(hist[1].pre.keys)) =>
        LET k == hist[1].value
        IN  /\ pc # "crashed"
            /\ pc = "idle" =>
                  /\ hist[1].ret = "true"
                  /\ LiveKeys = Inserted(hist[1].pre.keys, k)
                  /\ \A j \in Range(hist[1].pre.keys) : Found(j) # nullptr
                  /\ Found(k) # nullptr
                  /\ m_value[Found(k)] = k

HeapUnchanged ==
    UNCHANGED <<m_root, m_size, m_value, m_left, m_right, nalloc,
                released, double_free, s>>
\* the step is the call op(k), made on a tree that is not inside a call
Calls(op, k) ==
    pc = "idle" /\ hist' # <<>> /\ hist'[1].op = op /\ hist'[1].value = k
\* the call made by the step returns false at once and changes nothing
Rejected ==
    /\ hist'[1].ret = "false"
    /\ pc' = "idle"
    /\ HeapUnchanged

\* C6: push(k) of a key of the tree returns false and leaves the tree
\* exactly as it was: same root, nodes, keys, links and size, and no walk
\* (so no rotation) is started.
C6_DuplicatePushRejected ==
    [][\A k \in Keys :
          (Calls("push", k) /\ k \in Range(LiveKeys)) => Rejected]_vars

\* C7: pop(k) of a key that is not a key of the tree, the empty tree
\* included, returns false and leaves the tree exactly as it was; no node
\* is released and no walk is started.
C7_MissingPopRejected ==
    [][\A k \in Keys :
          (Calls("pop", k) /\ k \notin Range(LiveKeys)) => Rejected]_vars

\* The two rejections as the code decides them, by find(k)
\* (binary_search_tree.h:156, 210): whatever earlier calls have done to
\* the heap, a push of a key find reports and a pop of a key find does
\* not report are rejected.
PushRejectedWhenFound ==
    [][\A k \in Keys :
          (Calls("push", k) /\ Found(k) # nullptr) => Rejected]_vars
PopRejectedWhenNotFound ==
    [][\A k \in Keys :
          (Calls("pop", k) /\ Found(k) = nullptr) => Rejected]_vars

\* C8: on an avl_tree, push(k) of a key that is not in the tree followed at
\* once by pop(k) gives back the tree as it was before the push: the same
\* key at every position from the root (bitree_same) and the same size.
C8_PushPopRoundTrip ==
    (kind = "avl" /\ Returned("pop") /\ hist[1].ret = "true" /\ Len(hist) = 2)
        => (Shape_now = hist[2].pre.shape /\ m_size = hist[2].pre.size)

\* The slots that refer to node n: the root reference and the child slots
\* of live nodes.
Slots(n) ==
    (IF m_root = n THEN 1 ELSE 0)
    + Cardinality({m \in Live : m_left[m] = n})
    + Cardinality({m \in Live : m_right[m] = n})

\* C9: after push, pop and every rotation inside them, each live node is
\* referred to by exactly one slot (the root reference or one child slot of
\* a live node) and is reachable from the root.
C9_SingleOwner ==
    pc \in {"idle", "walk"} =>
        \A n \in Live : Slots(n) = 1 /\ n \in Tree

\* C10: every node is released exactly once: no address is deleted twice,
\* a node a pop has released is no longer reachable from the root, and
\* after teardown every node that was allocated has been released.
C10_ReleasedOnce ==
    /\ ~double_free
    /\ pc = "idle" => Tree \cap released = {}
    /\ pc = "destroyed" => (1..nalloc) \subseteq released

\* The tree is a tree of live nodes in BST order: no node reachable from
\* m_root has been released, and the keys in in-order are strictly
\* increasing (so no node is reached twice).
AllKeys ==
    LET v == vectorize(m_left, m_right, m_root)
    IN  [i \in 1..Len(v) |-> m_value[v[i]]]
WellFormed == Tree \cap released = {} /\ StrictlyIncreasing(AllKeys)
SetMax(S) == CHOOSE x \in S : \A y \in S : y <= x
SetMin(S) == CHOOSE x \in S : \A y \in S : x <= y

\* C11: min() and max() never end in an exception and change nothing; on
\* an empty tree they return the explicit result "empty", on a tree with
\* keys the smallest and the largest key of the tree.
C11_MinMaxTotal ==
    [][\A op \in {"min", "max"} :
          Calls(op, 0) =>
              /\ HeapUnchanged
              /\ pc' = "idle"
              /\ hist'[1].ret # "throw"
              /\ LiveKeys = <<>> => hist'[1].ret = "empty"
              /\ LiveKeys # <<>> =>
                    /\ hist'[1].ret = "value"
                    /\ hist'[1].res = IF op = "max"
                                      THEN SetMax(Range(LiveKeys))
                                      ELSE SetMin(Range(LiveKeys))]_vars

\* The second half of C11 on its own: on a well-formed tree with keys,
\* max() and min() return the largest and the smallest key.
MinMaxOnWellFormed ==
    [][\A op \in {"min", "max"} :
          (Calls(op, 0) /\ WellFormed /\ m_root # nullptr) =>
              /\ HeapUnchanged
              /\ hist'[1].ret = "value"
              /\ hist'[1].res = IF op = "max" THEN SetMax(Range(AllKeys))
                                ELSE SetMin(Range(AllKeys))]_vars

\* C12: on a well-formed tree (the empty tree included) find(k) returns a
\* node of the tree that holds k when k is a key of the tree and absence
\* when it is not, and changes nothing.
C12_FindCorrect ==
    [][\A k \in Keys :
          (Calls("find", k) /\ WellFormed) =>
              /\ HeapUnchanged
              /\ pc' = "idle"
              /\ hist'[1].ret = "value"
              /\ k \in Range(AllKeys) =>
                    /\ hist'[1].res \in Tree
                    /\ m_value[hist'[1].res] = k
              /\ k \notin Range(AllKeys) => hist'[1].res = nullptr]_vars

\* find has returned a node below the root of a well-formed tree of at
\* least three keys
C12_Witness ==
    /\ Returned("find")
    /\ WellFormed
    /\ Len(AllKeys) >= 3
    /\ hist[1].res \in Tree \ {m_root}

\* find has returned absence on a well-formed tree with keys
C12_WitnessAbsent ==
    /\ Returned("find")
    /\ WellFormed
    /\ Len(AllKeys) >= 2
    /\ hist[1].res = nullptr

\* res is the stack of the proper ancestors of node n, root first: the
\* nodes other than n from which n is reached, each reached from the one
\* before it.
IsAncestorPath(q, n) ==
    /\ Range(q) = {a \in Tree \ {n} : n \in Reach(m_left, m_right, a)}
    /\ \A i \in 1..Len(q) : \A j \in 1..Len(q) :
          i < j => q[j] \in Reach(m_left, m_right, q[i]) \ {q[i]}
\* the live nodes of the tree that hold k
Holders(k) == {n \in Tree \ released : m_value[n] = k}
PathToCorrect(k) ==
    /\ HeapUnchanged
    /\ pc' = "idle"
    /\ hist'[1].ret = "value"
    /\ Holders(k) = {} => ~hist'[1].res.found
    /\ Holders(k) # {} =>
          /\ hist'[1].res.found
          /\ \E n \in Holders(k) : IsAncestorPath(hist'[1].res.s, n)
          /\ (m_root \in Holders(k)) => hist'[1].res.s = <<>>

\* C13: pathTo(k) is absent when k is not a key of the tree; when it is,
\* the result is the stack of the proper ancestors of the node holding k,
\* root first and parent on top, without that node; it is empty for the
\* key of the root.  The tree is not changed.
C13_PathToAncestors ==
    [][\A k \in Keys : Calls("pathTo", k) => PathToCorrect(k)]_vars

\* C13 on well-formed trees only.
PathToOnWellFormed ==
    [][\A k \in Keys :
          (Calls("pathTo", k) /\ WellFormed) => PathToCorrect(k)]_vars

ParentOfCorrect(k) ==
    /\ HeapUnchanged
    /\ pc' = "idle"
    /\ hist'[1].ret = "value"
    /\ (m_root = nullptr \/ Holders(k) = {} \/ m_root \in Holders(k))
          => hist'[1].res = nullptr
    /\ (Holders(k) # {} /\ m_root \notin Holders(k)) =>
          /\ hist'[1].res \in Tree \ released
          /\ \E n \in Holders(k) :
                \/ m_left[hist'[1].res] = n
                \/ m_right[hist'[1].res] = n

\* C14: parentOf(k) is absent on an empty tree, for the key of the root
\* and for a key that is not in the tree; otherwise it is the node one of
\* whose child slots holds the node with key k.  The tree is not changed.
C14_ParentOfCorrect ==
    [][\A k \in Keys : Calls("parentOf", k) => ParentOfCorrect(k)]_vars

\* C14 on well-formed trees only.
ParentOfOnWellFormed ==
    [][\A k \in Keys :
          (Calls("parentOf", k) /\ WellFormed) => ParentOfCorrect(k)]_vars

\* The least n with h <= 1.4405 * log2(n + 2) - 0.3277, that is
\* n + 2 >= 2^((h + 0.3277) / 1.4405), for h = 1..6: the powers are
\* 1.894, 3.065, 4.959, 8.024, 12.983, 21.006.
HeightMinNodes == <<0, 2, 3, 7, 11, 20>>
\* h is at most 1.4405 * log2(n + 2) - 0.3277
WithinHeightBound(h, n) == h = 0 \/ (h <= 6 /\ n >= HeightMinNodes[h])

\* C15: after any sequence of avl_tree push and pop calls that leaves
\* n >= 1 nodes in the tree, depth(m_root) is at most
\* 1.4405 * log2(n + 2) - 0.3277.
C15_HeightBound ==
    (kind = "avl" /\ pc = "idle" /\ Cardinality(Tree \ released) >= 1) =>
        WithinHeightBound(depth(m_left, m_right, m_root),
                          Cardinality(Tree \ released))

\* The tree was built by pushing 1..n in ascending order into an empty
\* avl_tree: the n nodes were allocated in key order, none was released
\* and no key was overwritten, and the last call has returned.
AscendingPushed(n) ==
    /\ kind = "avl"
    /\ pc = "idle"
    /\ released = {}
    /\ nalloc = n
    /\ m_size = n
    /\ \A a \in 1..n : m_value[a] = a

\* The tree is perfect of height h: 2^h - 1 nodes within h levels.
Perfect(h) ==
    /\ depth(m_left, m_right, m_root) = h
    /\ Cardinality(Tree) = 2^h - 1

\* C16: pushing the keys 1..2^h - 1 in ascending order into an empty
\* avl_tree yields the perfect tree of height h whose root holds 2^(h-1).
C16_AscendingPerfect ==
    \A h \in 1..MaxNodes :
        AscendingPushed(2^h - 1) =>
            /\ Perfect(h)
            /\ m_root # nullptr
            /\ m_value[m_root] = 2^(h - 1)

\* The nodes from curr down the m_right links, the last one left out: the
\* nodes above the rightmost node of the subtree of curr, within it.
RECURSIVE RightSpineF(_, _, _)
RightSpineF(R, curr, fuel) ==
    IF curr = nullptr \/ fuel = 0 THEN <<>>
    ELSE IF R[curr] = nullptr THEN <<>>
    ELSE <<curr>> \o RightSpineF(R, R[curr], fuel - 1)

\* The nodes from the root down to the parent of the in-order predecessor
\* of n, n included: the walk of a pop that removes the key of n when n
\* has two children starts at the last of them.
RemovalPath(n) ==
    pathTo(m_value, m_left, m_right, m_root, m_value[n]).s
        \o <<n>> \o RightSpineF(m_right, m_left[n], HeapSize)

\* the node of a shape that the comparison descent for k ends at
RECURSIVE NodeOfF(_, _, _)
NodeOfF(shape, k, fuel) ==
    IF shape = <<>> \/ fuel = 0 THEN <<>>
    ELSE IF shape[2] = k THEN shape
    ELSE NodeOfF(IF k < shape[2] THEN shape[1] ELSE shape[3], k, fuel - 1)

RECURSIVE ShapeSizeF(_, _)
ShapeSizeF(shape, fuel) ==
    IF shape = <<>> \/ fuel = 0 THEN 0
    ELSE ShapeSizeF(shape[1], fuel - 1) + 1 + ShapeSizeF(shape[3], fuel - 1)

\* in the tree `pre` (all of its nodes live, its keys in order) the node
\* holding k has two children
TwoChildrenIn(pre, k) ==
    /\ Len(pre.keys) = ShapeSizeF(pre.shape, HeapSize)
    /\ StrictlyIncreasing(pre.keys)
    /\ LET nd == NodeOfF(pre.shape, k, HeapSize)
       IN  nd # <<>> /\ nd[1] # <<>> /\ nd[3] # <<>>

\* The step is avl_tree::pop(k) on a well-formed tree whose node holding k
\* has two children: the walk it starts is over the path of the physical
\* removal.
WalkFromRemovalPoint ==
    \A k \in Keys :
        (/\ kind = "avl"
         /\ Calls("pop", k)
         /\ WellFormed
         /\ Found(k) # nullptr
         /\ m_left[Found(k)] # nullptr
         /\ m_right[Found(k)] # nullptr)
        => /\ pc' = "walk"
           /\ s' = RemovalPath(Found(k))

\* The step ends such a pop: the tree it leaves satisfies the AVL
\* invariant.
TwoChildPopBalanced ==
    (/\ kind = "avl"
     /\ pc' = "idle"
     /\ hist' # <<>>
     /\ hist' # hist
     /\ hist'[1].op = "pop"
     /\ hist'[1].ret = "true"
     /\ TwoChildrenIn(hist'[1].pre, hist'[1].value))
    => \A n \in Reach(m_left', m_right', m_root') :
           Abs(balanceOf(m_left', m_right', n)) <= 1

\* C17: when avl_tree::pop removes the key of a node with two children, the
\* rebalancing walk covers the nodes from the parent of the detached
\* in-order predecessor up to the root, the node whose key was overwritten
\* included, and the tree the call leaves satisfies the AVL invariant.
C17_TwoChildPopWalk == [][WalkFromRemovalPoint /\ TwoChildPopBalanced]_vars

\* the node the next iteration of update_balance takes from the stack
WalkNode == s[Len(s)]
balanceFactor(n) == balanceOf(m_left, m_right, n)

\* The step has rotated n to the right: its left child t is above it, and
\* n has taken the right subtree of t as its left subtree.
RightRotated(n) ==
    LET t == m_left[n]
    IN  /\ pc' # "crashed"
        /\ m_right'[t] = n
        /\ m_left'[n] = m_right[t]
        /\ m_left'[t] = m_left[t]
        /\ m_right'[n] = m_right[n]

\* The step has rotated n to the left: the mirror image.
LeftRotated(n) ==
    LET t == m_right[n]
    IN  /\ pc' # "crashed"
        /\ m_left'[t] = n
        /\ m_right'[n] = m_left[t]
        /\ m_right'[t] = m_right[t]
        /\ m_left'[n] = m_left[n]

\* The step has done the left-right double rotation at n: the right child
\* u of the left child t of n is above both.
LeftRightRotated(n) ==
    LET t == m_left[n]
        u == m_right[t]
    IN  /\ pc' # "crashed"
        /\ m_left'[u] = t
        /\ m_right'[u] = n
        /\ m_right'[t] = m_left[u]
        /\ m_left'[n] = m_right[u]

\* The step has done the right-left double rotation at n.
RightLeftRotated(n) ==
    LET t == m_right[n]
        u == m_left[t]
    IN  /\ pc' # "crashed"
        /\ m_right'[u] = t
        /\ m_left'[u] = n
        /\ m_left'[t] = m_right[u]
        /\ m_right'[n] = m_left[u]

\* C18: in the rebalancing walk a node n with balanceFactor(n) > 1 gets a
\* single right rotation when balanceFactor(n.left) >= 0 (0 included) and
\* the left-right double rotation only when balanceFactor(n.left) < 0.
C18_LeftHeavyRotation ==
    [][(pc = "walk" /\ balanceFactor(WalkNode) > 1) =>
          IF balanceFactor(m_left[WalkNode]) >= 0
          THEN RightRotated(WalkNode)
          ELSE LeftRightRotated(WalkNode)]_vars

\* C19: in the rebalancing walk a node n with balanceFactor(n) < -1 gets a
\* single left rotation when balanceFactor(n.right) <= 0 and the
\* right-left double rotation when balanceFactor(n.right) > 0; a node with
\* |balanceFactor(n)| <= 1 leaves the links of the tree as they are.
C19_RightHeavyRotation ==
    [][pc = "walk" =>
          /\ (balanceFactor(WalkNode) < -1 =>
                 IF balanceFactor(m_right[WalkNode]) <= 0
                 THEN LeftRotated(WalkNode)
                 ELSE RightLeftRotated(WalkNode))
          /\ (Abs(balanceFactor(WalkNode)) <= 1 =>
                 UNCHANGED <<m_root, m_left, m_right>>)]_vars

\* The second half of C19 alone: the walk leaves the links alone at a
\* balanced node.
BalancedNodeUntouched ==
    [][(pc = "walk" /\ Abs(balanceFactor(WalkNode)) <= 1) =>
          UNCHANGED <<m_root, m_left, m_right>>]_vars

\* The step is a rotation that has run to its end: a walk step that
\* changes links.
Rotated ==
    /\ pc = "walk"
    /\ pc' # "crashed"
    /\ <<m_left, m_right>>' # <<m_left, m_right>>

\* C20: after any rotation the slot that held the rotated node refers to
\* the new root of the rotated subtree (the child slot of the parent, or
\* m_root when the rotated node was the root), so root() is a node with no
\* parent and every node that was reachable from the root still is.
C20_RotationKeepsSlot ==
    [][Rotated =>
          /\ Reach(m_left', m_right', m_root') = Tree
          /\ \A n \in Addr : m_left'[n] # m_root' /\ m_right'[n] # m_root']_vars

\* The links after the rearrangement of a left rotation at x (y = x.right):
\* x.right = old y.left, y.left = x.
LeftRearranged(x) ==
    LET y == m_right[x]
    IN  [L |-> [m_left EXCEPT ![y] = x], R |-> [m_right EXCEPT ![x] = m_left[y]]]

\* The mirror image (y = x.left): x.left = old y.right, y.right = x.
RightRearranged(x) ==
    LET y == m_left[x]
    IN  [L |-> [m_left EXCEPT ![x] = m_right[y]], R |-> [m_right EXCEPT ![y] = x]]

\* The step is the rearrangement h of the links, with y in the slot that
\* held x (m_root, or a child slot of a node of the tree), and nothing else.
RearrangedInSlot(h, x, y) ==
    \/ /\ m_root = x
       /\ m_root' = y
       /\ m_left' = h.L
       /\ m_right' = h.R
    \/ \E p \in Tree :
          /\ m_left[p] = x
          /\ m_root' = m_root
          /\ m_left' = [h.L EXCEPT ![p] = y]
          /\ m_right' = h.R
    \/ \E p \in Tree :
          /\ m_right[p] = x
          /\ m_root' = m_root
          /\ m_left' = h.L
          /\ m_right' = [h.R EXCEPT ![p] = y]

IsLeftRotation ==
    \E x \in Tree :
        m_right[x] # nullptr /\ RearrangedInSlot(LeftRearranged(x), x, m_right[x])

IsRightRotation ==
    \E x \in Tree :
        m_left[x] # nullptr /\ RearrangedInSlot(RightRearranged(x), x, m_left[x])

\* the case of update_balance that the iteration takes (avl_tree.h:174-186)
LeftHeavy ==
    /\ Abs(balanceFactor(WalkNode)) > 1
    /\ depth(m_left, m_right, m_left[WalkNode]) > depth(m_left, m_right, m_right[WalkNode])
RightHeavy ==
    /\ Abs(balanceFactor(WalkNode)) > 1
    /\ ~(depth(m_left, m_right, m_left[WalkNode]) > depth(m_left, m_right, m_right[WalkNode]))
CallsRotateRight == pc = "walk" /\ LeftHeavy /\ balanceFactor(m_left[WalkNode]) > 0
CallsRotateLeftRight == pc = "walk" /\ LeftHeavy /\ ~(balanceFactor(m_left[WalkNode]) > 0)
CallsRotateRightLeft == pc = "walk" /\ RightHeavy /\ balanceFactor(m_right[WalkNode]) > 0
CallsRotateLeft == pc = "walk" /\ RightHeavy /\ ~(balanceFactor(m_right[WalkNode]) > 0)

\* C21: a single rotation that the walk runs to its end is the stated
\* rearrangement at some node x of the tree (left: y = x.right is in the
\* slot of x, x.right = old y.left, y.left = x; right: the mirror image),
\* with x the root or a child, every other link unchanged, and the
\* in-order key sequence of the whole tree unchanged.
C21_SingleRotationExact ==
    [][/\ (CallsRotateLeft /\ pc' # "crashed") =>
              (IsLeftRotation /\ AllKeys' = AllKeys)
       /\ (CallsRotateRight /\ pc' # "crashed") =>
              (IsRightRotation /\ AllKeys' = AllKeys)]_vars

\* A tree as a value: its root reference and its links.
TreeNow == [root |-> m_root, L |-> m_left, R |-> m_right]
TreeNext == [root |-> m_root', L |-> m_left', R |-> m_right']

\* tr with y put into the slot that holds x: the root reference, or the
\* child slot of the parent of x.
InSlotOf(tr, x, y) ==
    IF tr.root = x THEN [tr EXCEPT !.root = y]
    ELSE IF \E p \in Addr : tr.L[p] = x
    THEN [tr EXCEPT !.L[CHOOSE p \in Addr : tr.L[p] = x] = y]
    ELSE IF \E p \in Addr : tr.R[p] = x
    THEN [tr EXCEPT !.R[CHOOSE p \in Addr : tr.R[p] = x] = y]
    ELSE tr

\* The left rotation at x as stated: y = x.right takes the slot of x,
\* x.right = old y.left, y.left = x.  The right rotation is the mirror.
LeftRotationAt(tr, x) ==
    LET y == tr.R[x]
        t1 == InSlotOf(tr, x, y)
    IN  [root |-> t1.root,
         L |-> [t1.L EXCEPT ![y] = x],
         R |-> [t1.R EXCEPT ![x] = tr.L[y]]]

RightRotationAt(tr, x) ==
    LET y == tr.L[x]
        t1 == InSlotOf(tr, x, y)
    IN  [root |-> t1.root,
         L |-> [t1.L EXCEPT ![x] = tr.R[y]],
         R |-> [t1.R EXCEPT ![y] = x]]

\* right-left at x: right rotation at x.right, then left rotation at x
RightLeftRotationAt(tr, x) == LeftRotationAt(RightRotationAt(tr, tr.R[x]), x)
\* left-right at x: left rotation at x.left, then right rotation at x
LeftRightRotationAt(tr, x) == RightRotationAt(LeftRotationAt(tr, tr.L[x]), x)

\* C22: a right-left rotation that the walk runs to its end is, at some
\* node x of the tree (the root, a left child or a right child), the right
\* rotation at x.right followed by the left rotation at x; a left-right
\* rotation is the left rotation at x.left followed by the right rotation
\* at x.
C22_DoubleRotationComposed ==
    [][/\ (CallsRotateRightLeft /\ pc' # "crashed") =>
              \E x \in Tree :
                  /\ m_right[x] # nullptr
                  /\ m_left[m_right[x]] # nullptr
                  /\ TreeNext = RightLeftRotationAt(TreeNow, x)
       /\ (CallsRotateLeftRight /\ pc' # "crashed") =>
              \E x \in Tree :
                  /\ m_left[x] # nullptr
                  /\ m_right[m_left[x]] # nullptr
                  /\ TreeNext = LeftRightRotationAt(TreeNow, x)]_vars

\* the node above WalkNode on the captured path (nullptr for the first)
NextUp == IF Len(s) >= 2 THEN s[Len(s) - 1] ELSE nullptr

\* The parent and the slot that the iteration uses are those of the
\* visited node n: no parent only for the root, else the next node up the
\* path, and the chosen child slot of it holds n.
ParentIsOf(n, top) ==
    LET p == WalkParent(top)
    IN  /\ (p = nullptr) => (n = m_root)
        /\ (n # m_root) =>
               /\ p = NextUp
               /\ p # nullptr
               /\ (IF WalkIsLeft(top) THEN m_left[p] ELSE m_right[p]) = n

\* C23: at each step of the rebalance walk the parent used for the visited
\* node n is absent only when n is the root; for every other visited node
\* it is the next node up the path, and the child slot chosen by the key
\* comparison is the slot that holds n.
C23_ParentOfVisited ==
    pc = "walk" => \A top \in TopReads : ParentIsOf(WalkNode, top)

\* the step visits the node on top of the path and goes on to the rest of
\* the path, ending the call when nothing is left
VisitsAndGoesOn ==
    /\ s' = WalkRest
    /\ pc' = IF WalkRest = <<>> THEN "idle" ELSE "walk"

\* C24: the rebalance walk terminates: every step visits the deepest node
\* of the captured path not visited yet and removes it from the path,
\* whether it rotates or not, and the walk is over when the root has been
\* visited, so after as many steps as the path is long.
C24_WalkTerminates == [][pc = "walk" => VisitsAndGoesOn]_vars

\* The same for the steps that do not dereference a bad pointer.
WalkGoesOnUnlessCrashed ==
    [][(pc = "walk" /\ pc' # "crashed") => VisitsAndGoesOn]_vars

\* height of a shape, and whether every node of it has subtrees whose
\* heights differ by at most 1
RECURSIVE ShapeDepthF(_, _)
ShapeDepthF(shape, fuel) ==
    IF shape = <<>> \/ fuel = 0 THEN 0
    ELSE 1 + Max(ShapeDepthF(shape[1], fuel - 1), ShapeDepthF(shape[3], fuel - 1))

RECURSIVE ShapeBalancedF(_, _)
ShapeBalancedF(shape, fuel) ==
    IF shape = <<>> \/ fuel = 0 THEN TRUE
    ELSE /\ Abs(ShapeDepthF(shape[1], HeapSize) - ShapeDepthF(shape[3], HeapSize)) <= 1
         /\ ShapeBalancedF(shape[1], fuel - 1)
         /\ ShapeBalancedF(shape[3], fuel - 1)

\* the shape with k put in as a new leaf by the comparison descent
RECURSIVE ShapeWithLeafF(_, _, _)
ShapeWithLeafF(shape, k, fuel) ==
    IF shape = <<>> \/ fuel = 0 THEN <<<<>>, k, <<>>>>
    ELSE IF k < shape[2]
    THEN <<ShapeWithLeafF(shape[1], k, fuel - 1), shape[2], shape[3]>>
    ELSE <<shape[1], shape[2], ShapeWithLeafF(shape[3], k, fuel - 1)>>

\* The current call is a push into a tree that satisfied the AVL invariant.
PushIntoBalanced ==
    /\ hist # <<>>
    /\ hist[1].op = "push"
    /\ ShapeBalancedF(hist[1].pre.shape, HeapSize)

\* No earlier step of the current push has changed a link: the tree is the
\* tree of before the call with the new leaf.
NotRotatedYet ==
    Shape_now = ShapeWithLeafF(hist[1].pre.shape, hist[1].value, HeapSize)

\* C25: a successful avl_tree push into a tree that satisfies the AVL
\* invariant rotates at no more than one ancestor of the new leaf: a walk
\* step that changes links is the first of its call to do so.
C25_OneRotationPerPush ==
    [][(pc = "walk" /\ PushIntoBalanced /\ <<m_left, m_right>>' # <<m_left, m_right>>)
          => NotRotatedYet]_vars

\* the only child of n, nullptr when n has none
OnlyChild(n) == IF m_left[n] # nullptr THEN m_left[n] ELSE m_right[n]

\* C26: binary_search_tree pop of a key whose node n has no child leaves
\* the slot of n (its parent's child slot, or the root reference) empty,
\* and pop of a key whose node n has exactly one child puts that child into
\* the slot of n; every other node keeps its links and its key.
C26_PopSplicesOut ==
    [][\A k \in Keys :
          (/\ kind = "bst"
           /\ Calls("pop", k)
           /\ WellFormed
           /\ Found(k) # nullptr
           /\ (m_left[Found(k)] = nullptr \/ m_right[Found(k)] = nullptr))
          => /\ TreeNext = InSlotOf(TreeNow, Found(k), OnlyChild(Found(k)))
             /\ \A n \in Tree \ {Found(k)} : m_value'[n] = m_value[n]]_vars

\* the in-order predecessor of a node n with a left child: max(n.left)
Predecessor(n) == maxKey(m_right, m_left[n])
LiveTree == Tree \ released

\* C27: binary_search_tree pop of a key whose node n has two children
\* keeps n in place with its links, overwrites the key of n with the key of
\* the in-order predecessor p = max(n.left), and removes the node of p from
\* the tree: exactly one node is removed, that of p, and the keys of the
\* tree are those of before without the popped key.
C27_TwoChildPop ==
    [][\A k \in Keys :
          (/\ kind = "bst"
           /\ Calls("pop", k)
           /\ WellFormed
           /\ Found(k) # nullptr
           /\ m_left[Found(k)] # nullptr
           /\ m_right[Found(k)] # nullptr)
          => LET n == Found(k)
                 p == Predecessor(n)
             IN  /\ hist'[1].ret = "true"
                 /\ m_value'[n] = m_value[p]
                 /\ m_right'[n] = m_right[n]
                 /\ n \in LiveTree'
                 /\ LiveTree' = LiveTree \ {p}
                 /\ LiveKeys' = Without(LiveKeys, k)]_vars

\* The same when the predecessor has no child: then the node of p is
\* released (though still linked).
TwoChildPopLeafPredecessor ==
    [][\A k \in Keys :
          (/\ kind = "bst"
           /\ Calls("pop", k)
           /\ WellFormed
           /\ Found(k) # nullptr
           /\ m_left[Found(k)] # nullptr
           /\ m_right[Found(k)] # nullptr
           /\ m_left[Predecessor(Found(k))] = nullptr)
          => /\ m_value'[Found(k)] = m_value[Predecessor(Found(k))]
             /\ LiveTree' = LiveTree \ {Predecessor(Found(k))}
             /\ LiveKeys' = Without(LiveKeys, k)]_vars

\* depth as the claim states it: depth(nil) = 0 and
\* depth(n) = 1 + max(depth(n.left), depth(n.right))
RECURSIVE HeightF(_, _)
HeightF(n, fuel) ==
    IF n = nullptr \/ fuel = 0 THEN 0
    ELSE 1 + Max(HeightF(m_left[n], fuel - 1), HeightF(m_right[n], fuel - 1))

Height(n) == HeightF(n, HeapSize)

\* balanceOf of every node that has been allocated, and of nil, is as stated
BalanceOfAsStated ==
    /\ balanceOf(m_left, m_right, nullptr) = 0
    /\ \A n \in 1..nalloc :
          /\ depth(m_left, m_right, n) = Height(n)
          /\ balanceOf(m_left, m_right, n) = Height(m_left[n]) - Height(m_right[n])
          /\ (m_left[n] = nullptr /\ m_right[n] = nullptr) =>
                 balanceOf(m_left, m_right, n) = 0

\* C28: balanceOf(node) is depth(node.left) - depth(node.right) with
\* depth(nil) = 0 and depth(n) = 1 + max(depth(n.left), depth(n.right)); it
\* is 0 for a node with no children and for nil; and evaluating it changes
\* nothing: an iteration of the walk that finds |balanceOf(curr)| <= 1, and
\* so does no more than evaluate it, leaves the whole tree as it was.
C28_BalanceOfIsHeightDifference ==
    [][/\ BalanceOfAsStated
       /\ (pc = "walk" /\ Abs(balanceOf(m_left, m_right, WalkNode)) <= 1) =>
              UNCHANGED <<m_root, m_size, m_value, m_left, m_right, nalloc, released>>]_vars

\* A push whose walk has evaluated balanceOf along its path has returned,
\* and the tree has a node whose subtrees have the heights 2 and 1 and a
\* node with no children.
C28_Witness ==
    /\ kind = "avl"
    /\ Returned("push")
    /\ hist[1].ret = "true"
    /\ hist[1].pre.shape # <<>>
    /\ \E n \in Tree :
          /\ Height(m_left[n]) = 2
          /\ Height(m_right[n]) = 1
          /\ balanceOf(m_left, m_right, n) = 1

\* C29: whenever the rebalance walk invokes a rotation, the nodes that the
\* rotation dereferences exist: for every pointer the iteration can hold
\* as parent and can dereference, the rotation runs to its end without
\* dereferencing nullptr.
C29_RotationOperandsExist ==
    pc = "walk" =>
        \A top \in TopReads : (ReadsTop /\ top = 0) \/ WalkLinks(top).ok

\* C30: the rebalance walk never reads the top of an empty path stack: no
\* iteration executes `parent = s.top()` with nothing left on the stack.
C30_NoEmptyTopRead == pc = "walk" => ~ReadsTop

\* When push or pop has an empty path there is no iteration at all.
EmptyPathNoWalk ==
    [][(pc = "idle" /\ hist' # <<>> /\ hist'[1].op \in {"push", "pop"}
        /\ kind = "avl" /\ pc' = "walk") => s' # <<>>]_vars

====
